---- MODULE Spec2Model ----
(***************************************************************************)
(* A model of cw's tail pipeline (src/src/commands/tail.rs): the driver    *)
(* Cmd::run, one tail_log_producer task per log group, the single          *)
(* write_log_event task, the unbounded mpsc channel between them and the   *)
(* remote CloudWatch Logs source the producers page through; and of cw's   *)
(* query poller (src/src/commands/query.rs): Cmd::run_query, the history   *)
(* record it keeps (src/src/db.rs) and the history store it writes to.     *)
(* LogGroupRef::parse, the two LogEventWriters and the store's save and    *)
(* update are also modelled on their own, as functions of their inputs.    *)
(*                                                                         *)
(* The runtime is tokio's current-thread runtime                           *)
(* (src/src/commands/mod.rs:129): one task runs at a time and is only      *)
(* suspended at an .await, so every action below is the code a task runs   *)
(* between two await points.                                               *)
(***************************************************************************)
EXTENDS Integers, Sequences, FiniteSets, TLC

\* ------------------------------------------------------------------ bounds
MaxProd == 2        \* log groups given on the command line (producers spawned)
MaxEv == 2          \* events the remote sources ever hold, all groups together
MaxTs == 1          \* event timestamps range over 0..MaxTs
PageMax == 2        \* events in one response of the remote
RunCap == 11        \* where the count of consecutive empty polls saturates
MaxEmpty == 1       \* consecutive empty polls per producer when several groups are tailed
MaxPolls == 4       \* poll requests of one query run
MaxRows == 2        \* result rows in one response
MaxRec == 2         \* records in one result row
MaxNow == 2         \* the clock reads 0..MaxNow
MaxLen == 4         \* characters in the argument given to LogGroupRef::parse
MaxMillis == 0      \* the timestamps chrono can represent are -MaxMillis..MaxMillis
MaxWrites == 3      \* writes to the history store when the store is exercised alone
MaxArg == 2         \* characters in the argument when the whole command is run

\* ------------------------------------------------------- program constants
BackoffStart == 1   \* let mut tail_sleep_sec = 1
BackoffMin == 1     \* clamp(1, 10)
BackoffMax == 10    \* clamp(1, 10)
PollInterval == 2   \* Duration::from_secs(2)

None == -1          \* Option::None of an i64 or of a token
Writer == 0         \* the task id of write_log_event
Prods == 1..MaxProd
Tokens == {1}       \* the continuation tokens the remote hands out
StartTimes == {0, 1}
EndTimes == {None, 0}

VARIABLES
    cmd,        \* the parsed Cmd: follow, start_time, end_time, log groups
    drv,        \* Cmd::run: "start", "wait" (in tasks.next().await), "ok", "err"
    drvErr,     \* the error Cmd::run returned: [task, kind]
    st,         \* per task: "unspawned", "running", "ok", "err", "aborted"
    taskErr,    \* per task: the error it returned ("none", "fetch", "send", "sink")
    ready,      \* FuturesUnordered's ready queue: finished tasks, in completion order
    yielded,    \* the tasks tasks.next() has already returned
    firstFail,  \* history: the first task that returned an error (None: none yet)
    pc,         \* per producer: "init", "fetch" (request in flight), "sleep", "done"
    cursor,     \* per producer: start_time
    token,      \* per producer: next_token
    backoff,    \* per producer: tail_sleep_sec
    page,       \* per producer: the events of the last response
    sawNoTok,   \* history, per producer: a response without a token was received
    emptyRun,   \* history, per producer: consecutive empty polls so far
    received,   \* history, per producer: every event received, in response order
    pushed,     \* history, per producer: every event sent on the channel
    remote,     \* per log group: the timestamps of the events the source holds
    chan,       \* the unbounded channel's queue
    rxOpen,     \* the receiver is alive
    wpc,        \* the writer: "recv", "write", "done"
    cur,        \* the writer: the event it dequeued and is writing
    deq,        \* history: every event dequeued, in order
    written,    \* history: every event written to the sink, in order
    qpc,        \* run_query: "start", "submit", "save", "poll", "update", "sleep",
                \*            "ok", "err", "panic"
    qErr,       \* the error run_query returned
    hist,       \* run_query's `history`, the in-memory QueryHistory
    store,      \* the query_history table: a set of rows
    resp,       \* the last GetQueryResults output
    out,        \* the lines printed to standard output
    now,        \* what Utc::now() reads
    nap,        \* the duration of the sleep in progress
    log,        \* history: poll requests, responses and store writes, in order
    arg,        \* the groups_with_stream_prefix given to LogGroupRef::parse
    refs,       \* what LogGroupRef::parse returned (Absent: not called yet)
    writer,     \* a LogEventWriter: its output type and its five flags
    event,      \* the LogEvent given to writer.write
    sink,       \* the lines the writer wrote to its sink
    wrote       \* what writer.write returned: "idle" before the call, "ok", "err"

vars == <<cmd, drv, drvErr, st, taskErr, ready, yielded, firstFail, pc, cursor,
          token, backoff, page, sawNoTok, emptyRun,
          received, pushed, remote, chan, rxOpen, wpc, cur, deq, written,
          qpc, qErr, hist, store, resp, out, now, nap, log,
          arg, refs, writer, event, sink, wrote>>

qVars == <<qpc, qErr, hist, store, resp, out, now, nap, log>>
fnVars == <<arg, refs, writer, event, sink, wrote>>

drvVars == <<drv, drvErr, yielded>>
prodVars == <<pc, cursor, token, backoff, page, sawNoTok, emptyRun,
              received, pushed>>
wrVars == <<wpc, cur, deq, written>>

\* ---------------------------------------------------------------- helpers
Min(a, b) == IF a < b THEN a ELSE b
Max(a, b) == IF a > b THEN a ELSE b
Last(s) == s[Len(s)]
IsPrefix(s, t) == Len(s) <= Len(t) /\ SubSeq(t, 1, Len(s)) = s

\* The tasks Cmd::run spawns: one producer per log group, and the writer.
Spawned == (1..cmd.groups) \cup {Writer}

\* i64::clamp
Clamp(x, lo, hi) == IF x < lo THEN lo ELSE IF x > hi THEN hi ELSE x

\* impl From<(&str, &FilteredLogEvent)> for LogEvent: the fields of the remote
\* event, and the name of the group it was requested for.
LogEvent(p, id) == [src |-> p, id |-> id, ts |-> remote[p][id]]

\* ------------------------------------------------------------- the remote
\* The ids of the events of group p inside [start, end].
InRange(p, start, end) ==
    {i \in 1..Len(remote[p]) :
        /\ remote[p][i] >= start
        /\ (end = None \/ remote[p][i] <= end)}

\* Event i comes before event j in the remote's order: by timestamp, then by id.
Before(p, i, j) ==
    \/ remote[p][i] < remote[p][j]
    \/ remote[p][i] = remote[p][j] /\ i < j

\* The ids in S, in the remote's order.
Sorted(p, S) ==
    [k \in 1..Cardinality(S) |->
        CHOOSE i \in S : Cardinality({j \in S : Before(p, j, i)}) = k - 1]

\* The responses a request (start, end) may get: at most PageMax of the events
\* in range, in timestamp order.
AnyPages(p, start, end) ==
    {[k \in 1..Len(Sorted(p, S)) |-> LogEvent(p, Sorted(p, S)[k])] :
        S \in {T \in SUBSET InRange(p, start, end) : Cardinality(T) <= PageMax}}

\* The responses of a remote that returns the events in range from the first
\* on, leaving none out, and at least one when there is one.
PrefixPages(p, start, end) ==
    LET all == Sorted(p, InRange(p, start, end))
    IN {[k \in 1..n |-> LogEvent(p, all[k])] :
          n \in {m \in 0..Min(PageMax, Len(all)) : m > 0 \/ Len(all) = 0}}

\* ------------------------------------------------- the query poller's data
\* aws_sdk_cloudwatchlogs::types::QueryStatus, as the match of run_query sees
\* it: the five statuses it names, and two of those it does not.
QueryStatuses ==
    {"Scheduled", "Running", "Complete", "Failed", "Timeout", "Cancelled", "Unknown"}

\* output.status is an Option: "None" is its None.
RespStatuses == QueryStatuses \cup {"None"}

\* crate::db::QueryStatus
DbStatuses == {"Scheduled", "Running", "Complete", "Failed", "Timeout"}

\* An Option<&str> is the empty set or the set of its one string.
Absent == {}
Some(x) == {x}
UnwrapOr(o, d) == IF o = Absent THEN d ELSE CHOOSE x \in o : TRUE

\* A ResultField: field() and value(), both optional.
PtrField == "@ptr"
FieldNames == {PtrField, "@message", "@timestamp"}
Values == {"x", "y"}
Record(f, v) == [field |-> f, value |-> v]
Records ==
    {Record(f, v) : f \in {Absent} \cup {Some(n) : n \in FieldNames},
                    v \in {Absent} \cup {Some(w) : w \in Values}}

\* The sequences of at most n elements of S.
RECURSIVE SeqsUpTo(_, _)
SeqsUpTo(S, n) ==
    IF n = 0 THEN {<<>>}
    ELSE LET shorter == SeqsUpTo(S, n - 1)
         IN shorter \cup {Append(q, x) : q \in shorter, x \in S}

\* Every result row of at most MaxRec records.
AllRows == SeqsUpTo(Records, MaxRec)

\* Three result rows: no field, one field, and a field with the pointer.
SomeRows ==
    {<<>>,
     <<Record(Some("@message"), Some("x"))>>,
     <<Record(Some("@message"), Some("y")), Record(Some(PtrField), Some("x"))>>}

\* output.results() of a poll: at most MaxRows of the four rows.
SomeResults == SeqsUpTo(SomeRows, MaxRows)

\* output.results() whose first row is any row at all.
RowResults ==
    {<<r>> \o rest : r \in AllRows, rest \in SeqsUpTo(SomeRows, MaxRows - 1)}

\* output.statistics(): absent, or records matched, records scanned and
\* bytes scanned.
NoStats == [matched |-> None, scanned |-> None, bytes |-> None]
Statistics == {[matched |-> 1, scanned |-> 2, bytes |-> 3]}

\* The GetQueryResults outputs with their rows among R.
Outputs(R) ==
    [status : RespStatuses \ {"Complete"}, stats : {NoStats}, rows : {<<>>}]
        \cup [status : {"Complete"}, stats : Statistics \cup {NoStats}, rows : R]
NoOutput == [status |-> "None", stats |-> NoStats, rows |-> <<>>]

\* The ids Uuid::new_v4 draws from, the job id StartQuery returns and the
\* query text.
Ids == {"u1", "u2"}
JobId == "job"
QueryText == "query"

\* #[derive(Default)] for QueryHistory: the status is Scheduled, the numbers
\* are zero.
DefaultHistory ==
    [id |-> "", query_id |-> "", contents |-> "", status |-> "Scheduled",
     records_total |-> 0, records_matched |-> 0, records_scanned |-> 0,
     bytes_scanned |-> 0, created_at |-> 0, modified_at |-> 0,
     deleted_at |-> None]

\* QueryHistory::new at time t, with the uuid it drew.
NewHistory(uuid, query_id, contents, t) ==
    [DefaultHistory EXCEPT !.id = uuid, !.query_id = query_id,
                           !.contents = contents, !.created_at = t,
                           !.modified_at = t]

\* A row an earlier run of the program left in the store.
OldRow ==
    [NewHistory("u2", "old", QueryText, 0) EXCEPT !.status = "Complete"]

\* ------------------------------------------------ the log group references
\* A &str is the sequence of its characters. The inputs are written over
\* Chars; Sample is the input "a:x, b ,, c:".
Chars == {"a", "b", ",", ":", " "}
Whitespace == {" "}
Sample == <<"a", ":", "x", ",", " ", "b", " ", ",", ",", " ", "c", ":">>
Inputs == SeqsUpTo(Chars, MaxLen) \cup {Sample}

\* str::find: the index of the first occurrence of c in s, None without one.
IndexOf(s, c) ==
    IF \E i \in 1..Len(s) : s[i] = c
    THEN CHOOSE i \in 1..Len(s) : s[i] = c /\ \A j \in 1..(i - 1) : s[j] # c
    ELSE None

\* str::split: the pieces between the occurrences of c, empty pieces kept.
RECURSIVE Split(_, _)
Split(s, c) ==
    IF IndexOf(s, c) = None THEN <<s>>
    ELSE <<SubSeq(s, 1, IndexOf(s, c) - 1)>>
             \o Split(SubSeq(s, IndexOf(s, c) + 1, Len(s)), c)

\* str::trim_start, str::trim_end and str::trim.
RECURSIVE TrimStart(_)
TrimStart(s) ==
    IF s # <<>> /\ Head(s) \in Whitespace THEN TrimStart(Tail(s)) ELSE s
RECURSIVE TrimEnd(_)
TrimEnd(s) ==
    IF s # <<>> /\ Last(s) \in Whitespace
    THEN TrimEnd(SubSeq(s, 1, Len(s) - 1)) ELSE s
Trim(s) == TrimEnd(TrimStart(s))

\* Mutant of SplitOnce: split at the last c, as str::rsplit_once.
SplitOnceLast(s, c) ==
    IF IndexOf(s, c) = None THEN <<s, <<>>>>
    ELSE LET i == CHOOSE i \in 1..Len(s) :
                      s[i] = c /\ \A j \in (i + 1)..Len(s) : s[j] # c
         IN <<SubSeq(s, 1, i - 1), SubSeq(s, i + 1, Len(s))>>

\* s.split_once(c).unwrap_or((s, "")): the text before the first c and the
\* text after it.
SplitOnce(s, c) ==
    IF IndexOf(s, c) = None THEN <<s, <<>>>>
    ELSE <<SubSeq(s, 1, IndexOf(s, c) - 1), SubSeq(s, IndexOf(s, c) + 1, Len(s))>>

\* An eyre::Result: Ok(val), or Err with the text the message quotes.
Ok(val) == [ok |-> TRUE, val |-> val, err |-> <<>>]
Err(text) == [ok |-> FALSE, val |-> <<>>, err |-> text]

\* LogGroupRef(name, prefix)
LogGroupRef(name, prefix) == [name |-> name, prefix |-> prefix]

\* LogGroupRef::new
LogGroupRefNew(group_name, stream_name) ==
    IF Trim(group_name) = <<>> THEN Err(<<>>)
    ELSE Ok(LogGroupRef(Trim(group_name),
                        IF Trim(stream_name) = <<>> THEN Absent
                        ELSE Some(Trim(stream_name))))

\* Mutant of NonEmptyTokens: the empty pieces are kept.
TrimmedTokens(s) == [i \in 1..Len(Split(s, ",")) |-> Trim(Split(s, ",")[i])]

\* .map(str::trim).filter(|s| !s.is_empty())
NonEmptyTokens(s) ==
    SelectSeq([i \in 1..Len(Split(s, ",")) |-> Trim(Split(s, ",")[i])],
              LAMBDA t : t # <<>>)

\* .collect() into a Result<Vec<_>>: the first Err, else every value in order.
RECURSIVE Collect(_)
Collect(results) ==
    IF results = <<>> THEN Ok(<<>>)
    ELSE IF ~Head(results).ok THEN Head(results)
    ELSE LET rest == Collect(Tail(results))
         IN IF rest.ok THEN Ok(<<Head(results).val>> \o rest.val) ELSE rest

\* The closure of parse: one token to one reference, the error naming the token.
ParseToken(s) ==
    LET made == LogGroupRefNew(SplitOnce(s, ":")[1], SplitOnce(s, ":")[2])
    IN IF made.ok THEN made ELSE Err(s)

\* LogGroupRef::parse
Parse(groups_with_stream_prefix) ==
    Collect([i \in 1..Len(NonEmptyTokens(groups_with_stream_prefix)) |->
                ParseToken(NonEmptyTokens(groups_with_stream_prefix)[i])])

\* ------------------------------------------------- the log event writers
\* OutputType and the fields TextWriter::new and JsonWriter::new are given.
OutputTypes == {"Text", "Json"}
Writers ==
    [output : OutputTypes, use_local_time : BOOLEAN, with_timestamp : BOOLEAN,
     with_group_name : BOOLEAN, with_stream_name : BOOLEAN,
     with_event_id : BOOLEAN]
NoWriter ==
    [output |-> "Text", use_local_time |-> FALSE, with_timestamp |-> FALSE,
     with_group_name |-> FALSE, with_stream_name |-> FALSE,
     with_event_id |-> FALSE]

\* struct LogEvent, without the ingestion time no writer reads. The one
\* timestamp past MaxMillis is one chrono cannot represent.
LogEvents ==
    [group_name : {"g"}, log_stream_name : {Absent, Some("s")},
     timestamp : {Absent} \cup {Some(t) : t \in 0..(MaxMillis + 1)},
     message : {Absent, Some("hi")}, event_id : {Absent, Some("e")}]
NoLogEvent ==
    [group_name |-> "", log_stream_name |-> Absent, timestamp |-> Absent,
     message |-> Absent, event_id |-> Absent]

\* utils::parse_timestamp: None when DateTime::from_timestamp_millis is, else
\* the RFC 3339 text to the second, in UTC or in the local zone. Every
\* timestamp of the model that chrono represents is within the first second.
ParseTimestamp(timestamp_ms, to_local_time) ==
    IF timestamp_ms < 0 - MaxMillis \/ timestamp_ms > MaxMillis THEN Absent
    ELSE IF to_local_time THEN Some("1970-01-01T01:00:00+01:00")
    ELSE Some("1970-01-01T00:00:00Z")

\* event.timestamp.and_then(|ts| parse_timestamp(ts, self.use_local_time))
Time(w, e) ==
    IF e.timestamp = Absent THEN Absent
    ELSE ParseTimestamp(UnwrapOr(e.timestamp, 0), w.use_local_time)

\* yansi's Paint: a text and the colour it is painted in.
Paint(colour, text) == [paint |-> colour, text |-> text]
Plain(text) == Paint("none", text)

\* write!(&mut line, "{} - ", x.colour()) for an x that is there.
Painted(colour, o) ==
    IF o = Absent THEN <<>>
    ELSE <<Paint(colour, UnwrapOr(o, "")), Plain(" - ")>>

\* Mutant of TextLine: the stream name is written whatever its flag.
TextLineWithStream(w, e) ==
    (IF w.with_timestamp THEN Painted("green", Time(w, e)) ELSE <<>>)
        \o (IF w.with_group_name THEN Painted("blue", Some(e.group_name)) ELSE <<>>)
        \o Painted("cyan", e.log_stream_name)
        \o (IF w.with_event_id THEN Painted("yellow", e.event_id) ELSE <<>>)
        \o (IF e.message # Absent THEN <<Plain(UnwrapOr(e.message, ""))>> ELSE <<>>)
        \o <<Plain("\n")>>

\* The line TextWriter::write builds.
TextLine(w, e) ==
    (IF w.with_timestamp THEN Painted("green", Time(w, e)) ELSE <<>>)
        \o (IF w.with_group_name THEN Painted("blue", Some(e.group_name)) ELSE <<>>)
        \o (IF w.with_stream_name THEN Painted("cyan", e.log_stream_name) ELSE <<>>)
        \o (IF w.with_event_id THEN Painted("yellow", e.event_id) ELSE <<>>)
        \o (IF e.message # Absent THEN <<Plain(UnwrapOr(e.message, ""))>> ELSE <<>>)
        \o <<Plain("\n")>>

\* json[k] = v for a v that is there (a JSON value is an Option: Absent is null).
JsonSet(json, k, o) == IF o = Absent THEN json ELSE {e \in json : e[1] # k} \cup {<<k, o>>}

\* The line JsonWriter::write builds: the object and the newline after it.
JsonLine(w, e) ==
    LET message == {<<"message", e.message>>}
        timestamp == IF w.with_timestamp
                     THEN JsonSet(message, "timestamp", Time(w, e)) ELSE message
        id == IF w.with_event_id
              THEN JsonSet(timestamp, "id", e.event_id) ELSE timestamp
        group == IF w.with_group_name
                 THEN JsonSet(id, "group", Some(e.group_name)) ELSE id
        stream == IF w.with_stream_name
                  THEN JsonSet(group, "stream", e.log_stream_name) ELSE group
    IN <<stream, "\n">>

\* The line of either writer.
Line(w, e) == IF w.output = "Text" THEN TextLine(w, e) ELSE JsonLine(w, e)

\* No call of LogGroupRef::parse and none of writer.write.
FnIdle ==
    /\ arg = <<>>
    /\ refs = Absent
    /\ writer = NoWriter
    /\ event = NoLogEvent
    /\ sink = <<>>
    /\ wrote = "idle"

\* -------------------------------------------------------------------- Init
NoEvent == [src |-> 0, id |-> 0, ts |-> 0]
NoError == [task |-> None, kind |-> "none"]
Tasks == Prods \cup {Writer}

\* The query poller before run_query is entered.
QueryIdle ==
    /\ qpc = "start"
    /\ qErr = "none"
    /\ hist = DefaultHistory
    /\ resp = NoOutput
    /\ out = <<>>
    /\ now = 0
    /\ nap = 0
    /\ log = <<>>

\* Every task unspawned, nothing requested, nothing written.
TailStart ==
    /\ drv = "start"
    /\ drvErr = NoError
    /\ st = [t \in Tasks |-> "unspawned"]
    /\ taskErr = [t \in Tasks |-> "none"]
    /\ ready = <<>>
    /\ yielded = {}
    /\ firstFail = None
    /\ pc = [p \in Prods |-> "init"]
    /\ cursor = [p \in Prods |-> None]
    /\ token = [p \in Prods |-> None]
    /\ backoff = [p \in Prods |-> 0]
    /\ page = [p \in Prods |-> <<>>]
    /\ sawNoTok = [p \in Prods |-> FALSE]
    /\ emptyRun = [p \in Prods |-> 0]
    /\ received = [p \in Prods |-> <<>>]
    /\ pushed = [p \in Prods |-> <<>>]
    /\ remote = [p \in Prods |-> <<>>]
    /\ chan = <<>>
    /\ rxOpen = TRUE
    /\ wpc = "recv"
    /\ cur = NoEvent
    /\ deq = <<>>
    /\ written = <<>>

\* The state when Cmd::run is entered. cmd.groups is the result of
\* LogGroupRef::parse (None: Err, else the number of references), cmd.buildOk
\* that of builder.build(), cmd.start the resolved start time.
TailInit ==
    /\ cmd \in [follow : BOOLEAN, start : StartTimes, end : EndTimes,
                groups : {None} \cup (0..MaxProd), buildOk : BOOLEAN]
    /\ TailStart
    /\ FnIdle

\* The tail command is run: no query is.
Init == TailInit /\ QueryIdle /\ store = {}

\* ------------------------------------------------------------- the driver
\* Mutant of RunError: --end-time is not checked against --follow.
RunErrorUnchecked ==
    IF cmd.groups = None THEN "parse"
    ELSE IF ~cmd.buildOk THEN "build"
    ELSE "none"

\* Cmd::run up to its first tasks.next().await: parse, build, the check of
\* --end-time against --follow, then the spawns and drop(sender).
RunError ==
    IF cmd.groups = None THEN "parse"
    ELSE IF ~cmd.buildOk THEN "build"
    ELSE IF cmd.end # None /\ cmd.follow THEN "args"
    ELSE "none"

DriverStart ==
    /\ drv = "start"
    /\ IF RunError # "none"
         THEN /\ drv' = "err"
              /\ drvErr' = [task |-> None, kind |-> RunError]
              /\ st' = st
         ELSE /\ drv' = "wait"
              /\ drvErr' = drvErr
              /\ st' = [t \in Tasks |-> IF t \in Spawned THEN "running" ELSE "unspawned"]
    /\ UNCHANGED <<fnVars, qVars, cmd, taskErr, ready, yielded, firstFail,
                   prodVars, remote, chan, rxOpen, wrVars>>

\* A task's future completes with result r ("ok" or "err"): its JoinHandle is
\* woken, which puts it at the tail of FuturesUnordered's ready queue.
Finish(t, r, kind) ==
    /\ st' = [st EXCEPT ![t] = r]
    /\ taskErr' = [taskErr EXCEPT ![t] = kind]
    /\ ready' = Append(ready, t)
    /\ firstFail' = IF r = "err" /\ firstFail = None THEN t ELSE firstFail

\* Mutant of JoinNext: the handle that became ready last.
JoinNextLifo(q) == q[Len(q)]

\* tasks.next(): the handle at the head of the ready queue.
JoinNext(q) == Head(q)

\* tasks.into_iter(): the handles still in the set, which the driver aborts.
Remaining(y) == Spawned \ y

\* Mutant of Continues: an Err result is skipped like an Ok one.
ContinuesAlways(r) == r \in {"ok", "err"}

\* The match on a finished task's result: TRUE when the loop goes on.
Continues(r) == r = "ok"

\* One turn of `while let Some(res) = tasks.next().await`. The Err(JoinError)
\* arm is for a task that panicked or was cancelled: no task does either
\* before the driver returns, so a finished task's result is Ok(Ok) or Ok(Err).
DriverPoll ==
    /\ drv = "wait"
    /\ ready # <<>>
    /\ LET t == JoinNext(ready)
           y == yielded \cup {t}
       IN /\ yielded' = y
          /\ ready' = SelectSeq(ready, LAMBDA u : u # t)
          /\ IF Continues(st[t])
               THEN /\ drv' = IF y = Spawned THEN "ok" ELSE "wait"
                    /\ drvErr' = drvErr
                    /\ st' = st
               ELSE /\ drv' = "err"
                    /\ drvErr' = [task |-> t, kind |-> taskErr[t]]
                    /\ st' = [u \in Tasks |->
                                IF u \in Remaining(y) /\ st[u] = "running"
                                  THEN "aborted" ELSE st[u]]
    /\ UNCHANGED <<fnVars, qVars, cmd, taskErr, firstFail, prodVars, remote,
                   chan, rxOpen, wrVars>>

\* ---------------------------------------------------------- the producers
\* A task runs only while the runtime does: block_on returns with Cmd::run.
Runs(t) == drv = "wait" /\ st[t] = "running"

\* Mutant of Breaks: the negation of follow is lost.
BreaksOnFollow(tok, follow) == tok = None /\ follow

\* `if next_token == None && !follow { break; }`
Breaks(tok, follow) == tok = None /\ ~follow

\* Mutant of NextCursor: the cursor moves two past the last timestamp.
NextCursorSkip(c, evs) == IF evs # <<>> THEN Last(evs).ts + 2 ELSE c

\* Mutant of NextCursor: the cursor is set to the last timestamp itself.
NextCursorSame(c, evs) == IF evs # <<>> THEN Last(evs).ts ELSE c

\* Mutant of NextCursor: an empty page moves the cursor by one.
NextCursorDrifts(c, evs) == IF evs # <<>> THEN Last(evs).ts + 1 ELSE c + 1

\* `if let Some(timestamp) = events.last().and_then(|e| e.timestamp())
\*      { start_time = timestamp + 1; }`
NextCursor(c, evs) == IF evs # <<>> THEN Last(evs).ts + 1 ELSE c

\* Mutant of NextBackoff: the clamp is lost.
NextBackoffUnclamped(b) == b + 1

\* `tail_sleep_sec = (tail_sleep_sec + 1).clamp(1, 10)`
NextBackoff(b) == Clamp(b + 1, BackoffMin, BackoffMax)

\* `if events.len() == 0 && follow`: the producer sleeps before it asks again.
Sleeps(evs, follow) == Len(evs) = 0 /\ follow

\* Mutant of SendFails: the result of send is dropped.
SendFailsNever(evs) == FALSE

\* `sender.send(..)?` of the first event of a page: an Err when the receiver
\* is dropped, which ends the producer.
SendFails(evs) == evs # <<>> /\ ~rxOpen

\* Mutant of SendAll: the page is sent last event first.
SendAllReversed(q, evs) == q \o [k \in 1..Len(evs) |-> evs[Len(evs) + 1 - k]]

\* The queue after the page's events were sent, in page order.
SendAll(q, evs) == q \o evs

\* The task's first poll: the locals, and the first request.
ProducerStart(p) ==
    /\ Runs(p)
    /\ pc[p] = "init"
    /\ pc' = [pc EXCEPT ![p] = "fetch"]
    /\ cursor' = [cursor EXCEPT ![p] = cmd.start]
    /\ token' = [token EXCEPT ![p] = None]
    /\ backoff' = [backoff EXCEPT ![p] = BackoffStart]
    /\ UNCHANGED <<fnVars, qVars, cmd, drvVars, st, taskErr, ready, firstFail,
                   page, sawNoTok, emptyRun, received, pushed, remote, chan,
                   rxOpen, wrVars>>

\* Mutant of ProducerFetchError: the error is noted and the request is sent
\* again.
ProducerFetchRetried(p) ==
    /\ Runs(p)
    /\ pc[p] = "fetch"
    /\ taskErr' = [taskErr EXCEPT ![p] = "fetch"]
    /\ UNCHANGED <<fnVars, qVars, cmd, drvVars, st, ready, firstFail, prodVars,
                   remote, chan, rxOpen, wrVars>>

\* The request in flight fails: `.context("Failed to fetch CloudWatch logs.")?`
ProducerFetchError(p) ==
    /\ Runs(p)
    /\ pc[p] = "fetch"
    /\ pc' = [pc EXCEPT ![p] = "done"]
    /\ Finish(p, "err", "fetch")
    /\ UNCHANGED <<fnVars, qVars, cmd, drvVars, cursor, token, backoff, page,
                   sawNoTok, emptyRun, received, pushed, remote, chan, rxOpen,
                   wrVars>>

\* The request in flight is answered with the events evs and the token tok:
\* the loop body from the response to the next await (the next request, the
\* sleep, or the return).
ProducerPage(p, evs, tok) ==
    /\ Runs(p)
    /\ pc[p] = "fetch"
    /\ page' = [page EXCEPT ![p] = evs]
    /\ sawNoTok' = [sawNoTok EXCEPT ![p] = @ \/ tok = None]
    /\ received' = [received EXCEPT ![p] = @ \o evs]
    /\ IF SendFails(evs)
         THEN /\ pc' = [pc EXCEPT ![p] = "done"]
              /\ Finish(p, "err", "send")
              /\ UNCHANGED <<cursor, token, backoff, emptyRun, pushed, chan>>
         ELSE /\ chan' = IF rxOpen THEN SendAll(chan, evs) ELSE chan
              /\ pushed' = [pushed EXCEPT ![p] = IF rxOpen THEN @ \o evs ELSE @]
              /\ token' = [token EXCEPT ![p] = tok]
              /\ IF Breaks(tok, cmd.follow)
                   THEN /\ pc' = [pc EXCEPT ![p] = "done"]
                        /\ Finish(p, "ok", "none")
                        /\ UNCHANGED <<cursor, backoff, emptyRun>>
                   ELSE /\ cursor' = [cursor EXCEPT ![p] = NextCursor(@, evs)]
                        /\ UNCHANGED <<st, taskErr, ready, firstFail>>
                        /\ IF Sleeps(evs, cmd.follow)
                             THEN /\ pc' = [pc EXCEPT ![p] = "sleep"]
                                  /\ emptyRun' = [emptyRun EXCEPT ![p] = Min(@ + 1, RunCap)]
                                  /\ backoff' = backoff
                             ELSE /\ pc' = pc
                                  /\ backoff' = [backoff EXCEPT ![p] = BackoffStart]
                                  /\ emptyRun' = [emptyRun EXCEPT ![p] = 0]
    /\ UNCHANGED <<fnVars, qVars, cmd, drvVars, remote, rxOpen, wrVars>>

\* The sleep is over: the backoff grows and the next request is sent.
ProducerWake(p) ==
    /\ Runs(p)
    /\ pc[p] = "sleep"
    /\ pc' = [pc EXCEPT ![p] = "fetch"]
    /\ backoff' = [backoff EXCEPT ![p] = NextBackoff(@)]
    /\ UNCHANGED <<fnVars, qVars, cmd, drvVars, st, taskErr, ready, firstFail,
                   cursor, token, page, sawNoTok, emptyRun, received, pushed,
                   remote, chan, rxOpen, wrVars>>

\* -------------------------------------------------------------- the writer
\* Mutant of RecvNone: the driver keeps its own sender, so the channel never
\* closes.
RecvNoneSenderKept(q) == FALSE

\* Mutant of RecvNone: an empty queue ends the writer.
RecvNoneOnEmpty(q) == q = <<>>

\* receiver.recv() returns None: every sender is dropped (the driver's at
\* drop(sender), a producer's when its task ends) and the queue is empty.
RecvNone(q) == q = <<>> /\ \A p \in 1..cmd.groups : st[p] # "running"

\* `while let Some(event) = receiver.recv().await`
WriterRecv ==
    /\ Runs(Writer)
    /\ wpc = "recv"
    /\ IF RecvNone(chan)
         THEN /\ wpc' = "done"
              /\ rxOpen' = FALSE
              /\ Finish(Writer, "ok", "none")
              /\ UNCHANGED <<chan, cur, deq>>
         ELSE /\ chan # <<>>
              /\ wpc' = "write"
              /\ cur' = Head(chan)
              /\ chan' = Tail(chan)
              /\ deq' = Append(deq, Head(chan))
              /\ UNCHANGED <<rxOpen, st, taskErr, ready, firstFail>>
    /\ UNCHANGED <<fnVars, qVars, cmd, drvVars, prodVars, remote, written>>

\* `writer.write(&event).await?`: the line reaches the sink, or the write fails.
WriterWrite(ok) ==
    /\ Runs(Writer)
    /\ wpc = "write"
    /\ IF ok
         THEN /\ written' = Append(written, cur)
              /\ wpc' = "recv"
              /\ UNCHANGED <<rxOpen, st, taskErr, ready, firstFail>>
         ELSE /\ wpc' = "done"
              /\ rxOpen' = FALSE
              /\ Finish(Writer, "err", "sink")
              /\ written' = written
    /\ cur' = NoEvent
    /\ UNCHANGED <<fnVars, qVars, cmd, drvVars, prodVars, remote, chan, deq>>

\* ------------------------------------------------------------- the remote
\* The number of events the remote holds.
RECURSIVE SumLen(_, _)
SumLen(f, n) == IF n = 0 THEN 0 ELSE Len(f[n]) + SumLen(f, n - 1)
Held == SumLen(remote, MaxProd)

\* The log group of producer p gets a new event with timestamp t.
Ingest(p, t) ==
    /\ Runs(p)
    /\ Held < MaxEv
    /\ remote' = [remote EXCEPT ![p] = Append(@, t)]
    /\ UNCHANGED <<fnVars, qVars, cmd, drvVars, st, taskErr, ready, firstFail,
                   prodVars, chan, rxOpen, wrVars>>

TokenOpts == {None} \cup Tokens

\* The request of producer p is answered: any page the remote may return,
\* with or without a continuation token.
Respond(p) ==
    \E tok \in TokenOpts :
        \E evs \in AnyPages(p, cursor[p], cmd.end) : ProducerPage(p, evs, tok)

\* As Respond, by a remote that answers at most MaxEmpty empty polls in a row.
RespondBusy(p) ==
    \E tok \in TokenOpts :
        \E evs \in AnyPages(p, cursor[p], cmd.end) :
            /\ evs = <<>> => emptyRun[p] < MaxEmpty
            /\ ProducerPage(p, evs, tok)

\* The whole pipeline, up to MaxProd groups.
Next ==
    \/ DriverStart
    \/ DriverPoll
    \/ \E p \in Prods : ProducerStart(p)
    \/ \E p \in Prods : ProducerFetchError(p)
    \/ \E p \in Prods : RespondBusy(p)
    \/ \E p \in Prods : ProducerWake(p)
    \/ WriterRecv
    \/ \E ok \in BOOLEAN : WriterWrite(ok)
    \/ \E p \in Prods, t \in 0..MaxTs : Ingest(p, t)

Spec == Init /\ [][Next]_vars

\* One log group, tailed for as long as the remote likes.
InitOne == Init /\ cmd.groups = 1 /\ cmd.buildOk

NextOne ==
    \/ DriverStart
    \/ DriverPoll
    \/ \E p \in Prods : ProducerStart(p)
    \/ \E p \in Prods : ProducerFetchError(p)
    \/ \E p \in Prods : Respond(p)
    \/ \E p \in Prods : ProducerWake(p)
    \/ WriterRecv
    \/ \E ok \in BOOLEAN : WriterWrite(ok)
    \/ \E p \in Prods, t \in 0..MaxTs : Ingest(p, t)

SpecOne == InitOne /\ [][NextOne]_vars

\* One log group followed without failures, on a remote that leaves no event
\* out of a response. The runtime polls every task that can run, and the
\* remote answers every request.
InitLive == InitOne /\ cmd.follow /\ cmd.end = None

RespondHonest(p) ==
    \E tok \in TokenOpts :
        \E evs \in PrefixPages(p, cursor[p], cmd.end) : ProducerPage(p, evs, tok)

NextLive ==
    \/ DriverStart
    \/ \E p \in Prods : ProducerStart(p)
    \/ \E p \in Prods : RespondHonest(p)
    \/ \E p \in Prods : ProducerWake(p)
    \/ WriterRecv
    \/ WriterWrite(TRUE)
    \/ \E p \in Prods, t \in 0..MaxTs : Ingest(p, t)

SpecLive ==
    /\ InitLive
    /\ [][NextLive]_vars
    /\ WF_vars(DriverStart)
    /\ WF_vars(ProducerStart(1))
    /\ WF_vars(RespondHonest(1))
    /\ WF_vars(ProducerWake(1))
    /\ WF_vars(WriterRecv)
    /\ WF_vars(WriterWrite(TRUE))

\* The groups tailed once, without --follow. The runtime polls every task
\* that can run, and the sink completes every write, with a result or with
\* an error. Nothing is asked of the remote: a request answered for ever with
\* an empty page and a token leaves the producer where a request never
\* answered leaves it, in its `.send().await`.
InitDone == Init /\ ~cmd.follow

WriteDone == \E ok \in BOOLEAN : WriterWrite(ok)

NextDone ==
    \/ DriverStart
    \/ DriverPoll
    \/ \E p \in Prods : ProducerStart(p)
    \/ \E p \in Prods : ProducerFetchError(p)
    \/ \E p \in Prods : Respond(p)
    \/ WriterRecv
    \/ \E ok \in BOOLEAN : WriterWrite(ok)
    \/ \E p \in Prods, t \in 0..MaxTs : Ingest(p, t)

SpecDone ==
    /\ InitDone
    /\ [][NextDone]_vars
    /\ WF_vars(DriverStart)
    /\ WF_vars(DriverPoll)
    /\ \A p \in Prods : WF_vars(ProducerStart(p))
    /\ WF_vars(WriterRecv)
    /\ WF_vars(WriteDone)

\* ------------------------------------------------------- the query poller
tailVars == <<cmd, drv, drvErr, st, taskErr, ready, yielded, firstFail,
              prodVars, remote, chan, rxOpen, wrVars>>

\* impl Display for QueryStatus
Display(status) ==
    CASE status = "Scheduled" -> "Scheduled"
      [] status = "Running" -> "Running"
      [] status = "Complete" -> "Complete"
      [] status = "Failed" -> "Failed"
      [] status = "Timeout" -> "Timeout"

\* The values save and update bind to ?1..?11.
Row(h) == [h EXCEPT !.status = Display(h.status)]

\* Mutant of SetStatus: the record is built anew, under a new id.
SetStatusNewId(h, status, t) ==
    [h EXCEPT !.id = CHOOSE u \in Ids : u # h.id, !.status = status,
              !.modified_at = t]

\* Mutant of SetStatus: modified_at is left as it was.
SetStatusKeepsTime(h, status, t) == [h EXCEPT !.status = status]

\* QueryHistory::set_status at time t
SetStatus(h, status, t) == [h EXCEPT !.status = status, !.modified_at = t]

\* Mutant of SetStatistics: the matched and the scanned counts change places.
SetStatisticsSwapped(h, total, matched, scanned, bytes, t) ==
    [h EXCEPT !.records_total = total, !.records_matched = scanned,
              !.records_scanned = matched, !.bytes_scanned = bytes,
              !.modified_at = t]

\* QueryHistory::set_statistics at time t
SetStatistics(h, total, matched, scanned, bytes, t) ==
    [h EXCEPT !.records_total = total, !.records_matched = matched,
              !.records_scanned = scanned, !.bytes_scanned = bytes,
              !.modified_at = t]

\* The constraint `insert or ignore` ignores on: id is the primary key of
\* query_history, so a row of the same id is a conflict.
Conflicts(db, h) == \E r \in db : r.id = h.id

\* Mutant of Save: `insert or replace into query_history`.
SaveOrReplace(db, h) == {r \in db : r.id # h.id} \cup {Row(h)}

\* Database::save: `insert or ignore into query_history`
Save(db, h) == IF Conflicts(db, h) THEN db ELSE db \cup {Row(h)}

\* Mutant of Update: the row is looked up by the job id.
UpdateByQueryId(db, h) ==
    {IF r.id = h.query_id THEN Row(h) ELSE r : r \in db}

\* Database::update: `update query_history set .. where id = ?1`
Update(db, h) == {IF r.id = h.id THEN Row(h) ELSE r : r \in db}

\* Mutant of StoreFails: the result of the write is dropped.
StoreFailsNever(ok) == FALSE

\* `db.save(&history).await?` and `db.update(&history).await?`: an Err returns.
StoreFails(ok) == ~ok

\* Mutant of Persists: the Scheduled arm writes the record too.
PersistsScheduled(status) ==
    status \in {"Scheduled", "Running", "Complete", "Failed", "Timeout"}

\* The arms of `match output.status` that set the record's status and update
\* the store.
Persists(status) == status \in {"Running", "Complete", "Failed", "Timeout"}

\* The crate::db::QueryStatus such an arm sets.
ArmStatus(status) ==
    CASE status = "Scheduled" -> "Scheduled"
      [] status = "Running" -> "Running"
      [] status = "Complete" -> "Complete"
      [] status = "Failed" -> "Failed"
      [] status = "Timeout" -> "Timeout"

\* Mutant of Outcome: the Failed arm breaks out of the loop.
OutcomeFailedBreaks(status) ==
    CASE status \in {"Scheduled", "Running"} -> "again"
      [] status = "Timeout" -> "timeout"
      [] OTHER -> "ok"

\* Mutant of Outcome: the None arm sleeps and polls again.
OutcomeNoneContinues(status) ==
    CASE status \in {"Scheduled", "Running", "None"} -> "again"
      [] status = "Failed" -> "failed"
      [] status = "Timeout" -> "timeout"
      [] OTHER -> "ok"

\* Mutant of Outcome: the Complete arm sleeps and polls again.
OutcomeCompleteContinues(status) ==
    CASE status \in {"Scheduled", "Running", "Complete"} -> "again"
      [] status = "Failed" -> "failed"
      [] status = "Timeout" -> "timeout"
      [] OTHER -> "ok"

\* How an arm ends: "again" (sleep, continue), "failed" and "timeout"
\* (return Err), "ok" (break, then Ok(())).
Outcome(status) ==
    CASE status \in {"Scheduled", "Running"} -> "again"
      [] status = "Failed" -> "failed"
      [] status = "Timeout" -> "timeout"
      [] OTHER -> "ok"

\* serde_json's Map::insert on a map held as a set of <<key, value>> pairs.
MapInsert(json, k, v) == {e \in json : e[1] # k} \cup {<<k, v>>}

\* Mutant of InsertField: the pointer field is written like any other.
InsertFieldWithPtr(json, record) ==
    IF record.field = Absent THEN json
    ELSE MapInsert(json, UnwrapOr(record.field, ""), UnwrapOr(record.value, ""))

\* The body of `for record in line`.
InsertField(json, record) ==
    IF record.field = Absent THEN json
    ELSE IF UnwrapOr(record.field, "") = PtrField THEN json
    ELSE MapInsert(json, UnwrapOr(record.field, ""), UnwrapOr(record.value, ""))

\* `for record in line { .. }`, from the first record on.
RECURSIVE InsertAll(_, _)
InsertAll(json, line) ==
    IF line = <<>> THEN json
    ELSE InsertAll(InsertField(json, Head(line)), Tail(line))

\* The object printed for one result row.
EmitLine(line) == InsertAll({}, line)

\* `for line in results { .. println!(..) }`
EmitLines(results) == [k \in 1..Len(results) |-> EmitLine(results[k])]

\* An entry of the log.
Event(ev, ok, status, h) == [ev |-> ev, ok |-> ok, status |-> status, row |-> Row(h)]

\* The poll requests sent so far.
Polls == Len(SelectSeq(log, LAMBDA e : e.ev = "poll"))

\* run_query returns Err(kind).
QueryFails(kind) ==
    /\ qpc' = "err"
    /\ qErr' = kind

\* run_query up to `start_query()..send().await`: the client is built and
\* the query text is read.
QueryStart(buildOk, textOk) ==
    /\ qpc = "start"
    /\ IF ~buildOk THEN QueryFails("build") /\ log' = log
       ELSE IF ~textOk THEN QueryFails("text") /\ log' = log
       ELSE /\ qpc' = "submit"
            /\ qErr' = qErr
            /\ log' = Append(log, Event("submit", TRUE, "", hist))
    /\ UNCHANGED <<fnVars, tailVars, hist, store, resp, out, now, nap>>

\* Mutant of QuerySubmitted: the record is created and saved before the query
\* id is looked at.
QuerySubmittedSavedFirst(ok, query_id, uuid) ==
    /\ qpc = "submit"
    /\ \A r \in store : r.id # uuid
    /\ IF ~ok THEN QueryFails("submit") /\ hist' = hist /\ store' = store
       ELSE /\ hist' = NewHistory(uuid, UnwrapOr(query_id, ""), QueryText, now)
            /\ IF query_id = Absent
               THEN QueryFails("noid") /\ store' = Save(store, hist')
               ELSE qpc' = "save" /\ qErr' = qErr /\ store' = store
    /\ UNCHANGED <<fnVars, tailVars, resp, out, now, nap, log>>

\* StartQuery is answered, with or without a query id; with one, the record
\* is created under a new uuid and `db.save` is called.
QuerySubmitted(ok, query_id, uuid) ==
    /\ qpc = "submit"
    /\ \A r \in store : r.id # uuid
    /\ IF ~ok THEN QueryFails("submit") /\ hist' = hist
       ELSE IF query_id = Absent THEN QueryFails("noid") /\ hist' = hist
       ELSE /\ qpc' = "save"
            /\ qErr' = qErr
            /\ hist' = NewHistory(uuid, UnwrapOr(query_id, ""), QueryText, now)
    /\ UNCHANGED <<fnVars, tailVars, store, resp, out, now, nap, log>>

\* `db.save(&history).await?` returns; on Ok the first poll request is sent.
StoreSaved(ok) ==
    /\ qpc = "save"
    /\ store' = IF ok THEN Save(store, hist) ELSE store
    /\ IF StoreFails(ok)
         THEN /\ QueryFails("store")
              /\ log' = Append(log, Event("save", ok, hist.status, hist))
         ELSE /\ qpc' = "poll"
              /\ qErr' = qErr
              /\ log' = log \o <<Event("save", ok, hist.status, hist),
                                 Event("poll", TRUE, "", hist)>>
    /\ UNCHANGED <<fnVars, tailVars, hist, resp, out, now, nap>>

\* The record after the arm for `status` has set it.
Mutated(h, output, t) ==
    IF output.status = "Complete"
      THEN SetStatistics(SetStatus(h, ArmStatus(output.status), t),
                         Len(output.rows), output.stats.matched,
                         output.stats.scanned, output.stats.bytes, t)
      ELSE SetStatus(h, ArmStatus(output.status), t)

\* `client.get_query_results()..send().await?` returns: the match on the
\* status, up to the arm's first await or to the return.
QueryPolled(ok, output) ==
    /\ qpc = "poll"
    /\ IF ~ok
         THEN /\ QueryFails("poll")
              /\ UNCHANGED <<hist, resp, nap, log>>
         ELSE /\ resp' = output
              /\ log' = Append(log, Event("resp", TRUE, output.status, hist))
              /\ IF output.status = "Complete" /\ output.stats = NoStats
                   THEN /\ qpc' = "panic"
                        /\ UNCHANGED <<qErr, hist, nap>>
                   ELSE IF Persists(output.status)
                   THEN /\ qpc' = "update"
                        /\ hist' = Mutated(hist, output, now)
                        /\ UNCHANGED <<qErr, nap>>
                   ELSE IF Outcome(output.status) = "again"
                   THEN /\ qpc' = "sleep"
                        /\ nap' = PollInterval
                        /\ UNCHANGED <<qErr, hist>>
                   ELSE /\ qpc' = "ok"
                        /\ UNCHANGED <<qErr, hist, nap>>
    /\ UNCHANGED <<fnVars, tailVars, store, out, now>>

\* `db.update(&history).await?` returns: the rest of the arm.
StoreUpdated(ok) ==
    /\ qpc = "update"
    /\ store' = IF ok THEN Update(store, hist) ELSE store
    /\ log' = Append(log, Event("update", ok, hist.status, hist))
    /\ IF StoreFails(ok)
         THEN /\ QueryFails("store")
              /\ UNCHANGED <<out, nap>>
         ELSE IF Outcome(resp.status) = "again"
         THEN /\ qpc' = "sleep"
              /\ nap' = PollInterval
              /\ UNCHANGED <<qErr, out>>
         ELSE IF Outcome(resp.status) = "ok"
         THEN /\ qpc' = "ok"
              /\ out' = out \o EmitLines(resp.rows)
              /\ UNCHANGED <<qErr, nap>>
         ELSE /\ QueryFails(Outcome(resp.status))
              /\ UNCHANGED <<out, nap>>
    /\ UNCHANGED <<fnVars, tailVars, hist, resp, now>>

\* The sleep is over: `continue`, and the next poll request is sent.
QueryWake ==
    /\ qpc = "sleep"
    /\ qpc' = "poll"
    /\ nap' = 0
    /\ log' = Append(log, Event("poll", TRUE, "", hist))
    /\ UNCHANGED <<fnVars, tailVars, qErr, hist, store, resp, out, now>>

\* Time passes while a request is in flight: the clock is read when StartQuery
\* or a poll is answered, and at no other time.
Tick ==
    /\ qpc \in {"submit", "poll"}
    /\ now < MaxNow
    /\ now' = now + 1
    /\ UNCHANGED <<fnVars, tailVars, qpc, qErr, hist, store, resp, out, nap,
                   log>>

\* The poll is answered with a response out of R; the remote reports
\* Scheduled or Running to at most MaxPolls - 1 polls.
PollAnswered(R) ==
    /\ qpc = "poll"
    /\ \E output \in Outputs(R) :
          /\ Outcome(output.status) = "again" => Polls < MaxPolls
          /\ QueryPolled(TRUE, output)

\* One run of the query command, on a store that is empty or holds the row
\* of an earlier run.
InitQuery ==
    /\ TailInit
    /\ cmd = [follow |-> FALSE, start |-> 0, end |-> None, groups |-> None,
              buildOk |-> FALSE]
    /\ QueryIdle
    /\ store \in {{}, {Row(OldRow)}}

NextQuery ==
    \/ \E buildOk, textOk \in BOOLEAN : QueryStart(buildOk, textOk)
    \/ \E ok \in BOOLEAN, query_id \in {Absent, Some(JobId)}, uuid \in Ids :
          QuerySubmitted(ok, query_id, uuid)
    \/ \E ok \in BOOLEAN : StoreSaved(ok)
    \/ PollAnswered(SomeResults)
    \/ QueryPolled(FALSE, NoOutput)
    \/ \E ok \in BOOLEAN : StoreUpdated(ok)
    \/ QueryWake
    \/ Tick

SpecQuery == InitQuery /\ [][NextQuery]_vars

\* The first poll of a run is answered Complete, with statistics and with
\* rows out of R.
CompleteAnswered(R) ==
    /\ qpc = "poll"
    /\ \E output \in Outputs(R) :
          /\ output.status = "Complete"
          /\ output.stats # NoStats
          /\ QueryPolled(TRUE, output)

\* A run whose record is saved and whose first poll request is in flight,
\* answered Complete with result rows of any shape.
InitRows ==
    /\ TailInit
    /\ cmd = [follow |-> FALSE, start |-> 0, end |-> None, groups |-> None,
              buildOk |-> FALSE]
    /\ qpc = "poll"
    /\ qErr = "none"
    /\ hist = NewHistory("u1", JobId, QueryText, 0)
    /\ store = {Row(hist)}
    /\ resp = NoOutput
    /\ out = <<>>
    /\ now = 0
    /\ nap = 0
    /\ log = <<Event("submit", TRUE, "", DefaultHistory),
               Event("save", TRUE, hist.status, hist),
               Event("poll", TRUE, "", hist)>>

NextRows ==
    \/ CompleteAnswered(RowResults)
    \/ StoreUpdated(TRUE)

SpecRows == InitRows /\ [][NextRows]_vars

\* --------------------------------------------- the functions, on their own
\* Neither command is running.
NoCmd ==
    [follow |-> FALSE, start |-> 0, end |-> None, groups |-> None,
     buildOk |-> FALSE]
Idle == cmd = NoCmd /\ TailStart /\ QueryIdle /\ store = {}

\* LogGroupRef::parse(&self.group_names)
ParseArg ==
    /\ refs = Absent
    /\ refs' = Some(Parse(arg))
    /\ UNCHANGED <<tailVars, qVars, arg, writer, event, sink, wrote>>

\* LogGroupRef::parse, given any argument of at most MaxLen characters and the
\* sample argument.
InitParse ==
    /\ Idle
    /\ arg \in Inputs
    /\ refs = Absent
    /\ writer = NoWriter
    /\ event = NoLogEvent
    /\ sink = <<>>
    /\ wrote = "idle"

NextParse == ParseArg

SpecParse == InitParse /\ [][NextParse]_vars

\* writer.write(&event).await: the line is built and given to
\* sink.write_all, which writes all of it or fails having written less.
WriteEvent(ok) ==
    /\ wrote = "idle"
    /\ IF ok
       THEN /\ sink' = Append(sink, Line(writer, event))
            /\ wrote' = "ok"
       ELSE /\ \E k \in 0..(Len(Line(writer, event)) - 1) :
                  sink' = Append(sink, SubSeq(Line(writer, event), 1, k))
            /\ wrote' = "err"
    /\ UNCHANGED <<tailVars, qVars, arg, refs, writer, event>>

\* One event given to a writer of either type, with any flags.
InitWrite ==
    /\ Idle
    /\ arg = <<>>
    /\ refs = Absent
    /\ writer \in Writers
    /\ event \in LogEvents
    /\ sink = <<>>
    /\ wrote = "idle"

NextWrite == \E ok \in BOOLEAN : WriteEvent(ok)

SpecWrite == InitWrite /\ [][NextWrite]_vars

\* ------------------------------------------- the command, argument and all
\* What Cmd::run has of LogGroupRef::parse(&self.group_names): None for an
\* Err, else the number of references.
ParsedGroups(s) == IF Parse(s).ok THEN Len(Parse(s).val) ELSE None

\* The arguments of at most MaxArg characters that name at most MaxProd groups.
SomeArgs ==
    {s \in SeqsUpTo({"a", ",", ":"}, MaxArg) :
        ParsedGroups(s) \in {None} \cup (0..MaxProd)}

\* Cmd::run is entered with the argument still to be parsed.
InitArgs ==
    /\ arg \in SomeArgs
    /\ cmd \in [follow : BOOLEAN, start : StartTimes, end : EndTimes,
                groups : {ParsedGroups(arg)}, buildOk : BOOLEAN]
    /\ TailStart
    /\ refs = Absent
    /\ writer = NoWriter
    /\ event = NoLogEvent
    /\ sink = <<>>
    /\ wrote = "idle"
    /\ QueryIdle
    /\ store = {}

SpecArgs == InitArgs /\ [][NextOne]_vars

\* --------------------------------------------- the history store, on its own
\* The records given to the store: either id, a status, a modification time.
SomeHistories ==
    {[NewHistory(u, JobId, QueryText, 0) EXCEPT !.status = status,
                                               !.modified_at = t] :
        u \in Ids, status \in {"Scheduled", "Complete"}, t \in {0, 1}}

\* The tables that hold at most one row of an id.
SomeStores ==
    {db \in SUBSET {Row(h) : h \in SomeHistories} :
        \A r1, r2 \in db : r1.id = r2.id => r1 = r2}

\* db.save(&history) and db.update(&history), each committing.
DbSave ==
    /\ Len(log) < MaxWrites
    /\ store' = Save(store, hist)
    /\ log' = Append(log, Event("save", TRUE, hist.status, hist))
    /\ UNCHANGED <<fnVars, tailVars, qpc, qErr, hist, resp, out, now, nap>>

DbUpdate ==
    /\ Len(log) < MaxWrites
    /\ store' = Update(store, hist)
    /\ log' = Append(log, Event("update", TRUE, hist.status, hist))
    /\ UNCHANGED <<fnVars, tailVars, qpc, qErr, hist, resp, out, now, nap>>

\* The caller comes with another record.
DbRecord(h) ==
    /\ Len(log) < MaxWrites
    /\ h # hist
    /\ hist' = h
    /\ UNCHANGED <<fnVars, tailVars, qpc, qErr, store, resp, out, now, nap,
                   log>>

\* Any table, any record.
InitStore ==
    /\ cmd = NoCmd /\ TailStart /\ FnIdle
    /\ qpc = "start"
    /\ qErr = "none"
    /\ hist \in SomeHistories
    /\ store \in SomeStores
    /\ resp = NoOutput
    /\ out = <<>>
    /\ now = 0
    /\ nap = 0
    /\ log = <<>>

NextStore ==
    \/ DbSave
    \/ DbUpdate
    \/ \E h \in SomeHistories : DbRecord(h)

SpecStore == InitStore /\ [][NextStore]_vars

\* =================================================================== claims
\* The events of source p in the sequence s.
From(s, p) == SelectSeq(s, LAMBDA e : e.src = p)
Groups == 1..cmd.groups
Failed == {t \in Spawned : st[t] = "err"}

\* C1: when Cmd::run returns the error of a task, it is the error of the task
\* that failed first, no other task is still running (each was aborted or had
\* finished), and no task that failed later was taken from the set.
C1_FirstErrorWins ==
    (drv = "err" /\ drvErr.task # None) =>
        /\ drvErr.task = firstFail
        /\ drvErr.kind = taskErr[firstFail]
        /\ \A t \in Spawned : st[t] # "running"
        /\ \A t \in Failed \ {firstFail} : t \notin yielded

\* C1's case: a producer failed after the task whose error was returned, and
\* another task was aborted while running.
C1_Witness ==
    /\ drv = "err"
    /\ \E t \in Groups : st[t] = "aborted"
    /\ \E u \in Failed : u # drvErr.task

\* C2: Cmd::run returns Ok only when every spawned task has returned Ok.
C2_SuccessNeedsAll ==
    drv = "ok" => \A t \in Spawned : st[t] = "ok" /\ t \in yielded

\* C2's case: two producers and the writer all ended, with lines written.
C2_Witness ==
    /\ drv = "ok"
    /\ cmd.groups = 2
    /\ written # <<>>

\* C3: when Cmd::run returns Ok the channel is empty and the sink holds, for
\* each source, exactly the events its producer sent; the writer returns Ok
\* only with the queue empty and no producer left running.
C3_AllWritten ==
    /\ drv = "ok" =>
          /\ chan = <<>>
          /\ \A p \in Groups : From(written, p) = pushed[p]
          /\ Len(written) = SumLen(pushed, MaxProd)
    /\ st[Writer] = "ok" =>
          /\ chan = <<>>
          /\ \A p \in Groups : st[p] # "running"

\* C3's case: success with the events of two sources written.
C3_Witness ==
    /\ drv = "ok"
    /\ From(written, 1) # <<>>
    /\ From(written, 2) # <<>>

\* C4: what a producer sent is a prefix of what it received, page after page;
\* the events of a source leave the channel in the order they were sent; and
\* the writer writes in dequeue order, one event at a time.
C4_SourceOrder ==
    /\ \A p \in Prods :
          /\ IsPrefix(pushed[p], received[p])
          /\ IsPrefix(From(deq, p), pushed[p])
          /\ From(deq \o chan, p) = pushed[p]
    /\ IsPrefix(written, deq)
    /\ Len(deq) - Len(written) <= 1

\* C4's case: two events of one source, received in two pages, were written
\* while a second producer was running.
C4_Witness ==
    /\ cmd.groups = 2
    /\ \E p \in Groups :
          /\ Len(From(written, p)) = 2
          /\ Len(page[p]) = 1
          /\ \E q \in Groups \ {p} : st[q] = "running"

\* C5: a producer returns Ok only with follow off, after a response without
\* token, with every received event sent once and in order; and with follow
\* off no request is in flight once a response without token was received.
C5_StopsAtLastPage ==
    \A p \in Prods :
        /\ st[p] = "ok" =>
              /\ ~cmd.follow
              /\ token[p] = None
              /\ pushed[p] = received[p]
              /\ pc[p] = "done"
        /\ (~cmd.follow /\ sawNoTok[p]) =>
              /\ pc[p] = "done"
              /\ st[p] = "ok" \/ taskErr[p] = "send"

\* C5's case: a page with a token, then a page without, one event in each.
C5_Witness ==
    /\ st[1] = "ok"
    /\ Len(pushed[1]) = 2
    /\ Len(page[1]) = 1

\* C6: a request that follows a page ending at timestamp T starts at T + 1.
C6_CursorAfterPage ==
    \A p \in Prods :
        (pc[p] = "fetch" /\ page[p] # <<>>) => cursor[p] = Last(page[p]).ts + 1

\* C6's case: a request in flight after a page that ended at MaxTs.
C6_Witness ==
    /\ pc[1] = "fetch"
    /\ page[1] # <<>>
    /\ Last(page[1]).ts = MaxTs

\* C7: with follow on, no remote event is sent twice.
C7_NoDuplicate ==
    \A p \in Prods :
        cmd.follow =>
            \A i, j \in 1..Len(pushed[p]) : i # j => pushed[p][i].id # pushed[p][j].id

\* C7's case: two events of different timestamps were sent, the cursor stands
\* past the later one, and the poll after them came back empty.
C7_Witness ==
    /\ cmd.follow
    /\ Len(pushed[1]) = 2
    /\ Len(received[1]) = 2
    /\ pushed[1][1].ts < pushed[1][2].ts
    /\ cursor[1] = pushed[1][2].ts + 1
    /\ pc[1] = "sleep"

\* The remote event i of group 1 was sent on the channel.
Pushed(i) == \E k \in 1..Len(pushed[1]) : pushed[1][k].id = i
\* The remote holds an event i at or after the initial start time.
Wanted(i) == i <= Len(remote[1]) /\ remote[1][i] >= cmd.start
\* The events of group 1 became visible in strictly increasing timestamp order.
Increasing ==
    \A i, j \in 1..Len(remote[1]) : i < j => remote[1][i] < remote[1][j]

C9_Backoff ==
    \A p \in Prods :
        pc[p] # "init" =>
            /\ backoff[p] \in BackoffMin..BackoffMax
            /\ (pc[p] = "sleep") => backoff[p] = Min(emptyRun[p], BackoffMax)
            /\ (cmd.follow /\ pc[p] = "fetch") =>
                  backoff[p] = Min(emptyRun[p] + 1, BackoffMax)
            /\ ~cmd.follow => backoff[p] = BackoffStart /\ pc[p] # "sleep"

\* C9's case: the sleep after the eleventh consecutive empty poll.
C9_Witness ==
    /\ pc[1] = "sleep"
    /\ emptyRun[1] = BackoffMax + 1
    /\ backoff[1] = BackoffMax

\* C10: a producer that received an event it did not send has returned the
\* send error, with nothing of that page sent and no request in flight; and
\* the send error is returned only with the receiver gone.
C10_SendErrorStops ==
    \A p \in Prods :
        /\ received[p] # pushed[p] =>
              /\ st[p] = "err" /\ taskErr[p] = "send"
              /\ pc[p] = "done"
              /\ received[p] = pushed[p] \o page[p]
        /\ taskErr[p] = "send" =>
              /\ ~rxOpen
              /\ pc[p] = "done"
              /\ page[p] # <<>>

\* C10's case: the send of a page failed after an earlier page went through.
C10_Witness ==
    /\ taskErr[1] = "send"
    /\ page[1] # <<>>
    /\ pushed[1] # <<>>

\* C11: a producer whose page request failed has returned that error and has
\* no request in flight; everything it received before is sent, and is in the
\* channel or was dequeued; its result is with the driver, which does not
\* return Ok, and returns this error when no task failed earlier.
C11_FetchErrorStops ==
    \A p \in Prods :
        taskErr[p] = "fetch" =>
            /\ st[p] = "err"
            /\ pc[p] = "done"
            /\ pushed[p] = received[p]
            /\ From(deq \o chan, p) = pushed[p]
            /\ p \in yielded \/ \E k \in 1..Len(ready) : ready[k] = p
            /\ drv # "ok"
            /\ (drv = "err" /\ firstFail = p) =>
                  drvErr = [task |-> p, kind |-> "fetch"]

\* C11's case: a request failed after a page was sent, the driver returned
\* the error and aborted the other producer.
C11_Witness ==
    /\ \E p \in Groups :
          /\ taskErr[p] = "fetch"
          /\ pushed[p] # <<>>
          /\ drvErr = [task |-> p, kind |-> "fetch"]
          /\ \E q \in Groups \ {p} : st[q] = "aborted"
    /\ drv = "err"

\* The statuses of the poll responses so far, in order.
Resps ==
    LET r == SelectSeq(log, LAMBDA e : e.ev = "resp")
    IN [k \in 1..Len(r) |-> r[k].status]
\* The store writes so far, and those that went through.
Writes == SelectSeq(log, LAMBDA e : e.ev \in {"save", "update"})
OkWrites == SelectSeq(Writes, LAMBDA e : e.ok)
\* The rows the store holds under the record's id.
Stored == {r \in store : r.id = hist.id}
Terminal == {"Complete", "Failed", "Timeout"}
\* Scheduled any number of times, then Running, then Complete.
ScheduledRunningComplete(q) ==
    /\ Len(q) >= 2
    /\ q[Len(q)] = "Complete"
    /\ q[Len(q) - 1] = "Running"
    /\ \A k \in 1..(Len(q) - 2) : q[k] = "Scheduled"

\* C12: when the polls returned Scheduled any number of times, then Running,
\* then Complete with statistics, and no write failed, then once the last
\* update has returned the store was written three times (the insert with
\* Scheduled, an update with Running and no statistics, an update with
\* Complete and the statistics of the response), run_query has returned Ok
\* and the record and its row are Complete.
C12_ThreeWrites ==
    (/\ ScheduledRunningComplete(Resps)
     /\ resp.stats # NoStats
     /\ \A k \in 1..Len(Writes) : Writes[k].ok
     /\ qpc # "update") =>
        /\ qpc = "ok"
        /\ Len(Writes) = 3
        /\ Writes[1].ev = "save" /\ Writes[1].row.status = "Scheduled"
        /\ Writes[2].ev = "update" /\ Writes[2].row.status = "Running"
        /\ Writes[2].row.records_matched = 0
        /\ Writes[3].ev = "update" /\ Writes[3].row.status = "Complete"
        /\ Writes[3].row.records_total = Len(resp.rows)
        /\ Writes[3].row.records_matched = resp.stats.matched
        /\ Writes[3].row.records_scanned = resp.stats.scanned
        /\ Writes[3].row.bytes_scanned = resp.stats.bytes
        /\ hist.status = "Complete"
        /\ Stored = {Writes[3].row}

\* C12's case: Scheduled twice, Running, Complete with rows, and success.
C12_Witness ==
    /\ qpc = "ok"
    /\ Resps = <<"Scheduled", "Scheduled", "Running", "Complete">>
    /\ Len(out) = MaxRows

\* C13: after a poll reported Failed or Timeout no row is printed, and once
\* the update has returned run_query has returned an error: the store's, when
\* the update failed, else the query's failure or timeout, with the reported
\* status in the record and in its row, written by the one update that
\* follows the response, and no poll after it.
C13_FailedOrTimeout ==
    (Resps # <<>> /\ resp.status \in {"Failed", "Timeout"}) =>
        /\ out = <<>>
        /\ qpc \in {"update", "err"}
        /\ qpc = "err" =>
              /\ Last(log).ev = "update"
              /\ log[Len(log) - 1].ev = "resp"
              /\ Last(log).row.status = resp.status
              /\ qErr = IF ~Last(log).ok THEN "store"
                        ELSE IF resp.status = "Failed" THEN "failed"
                        ELSE "timeout"
              /\ Last(log).ok => Stored = {Row(hist)} /\ hist.status = resp.status

\* C13's case: Running, then Failed, and the error of a failed query.
C13_Witness ==
    /\ qErr = "failed"
    /\ Resps = <<"Running", "Failed">>
    /\ \E r \in Stored : r.status = "Failed"

\* C14: after a poll without status, or with a status the match does not
\* name, run_query has returned Ok; nothing was written or printed since, and
\* the row is as the last write left it.
C14_NoStatusStops ==
    (Resps # <<>> /\ resp.status \in {"None", "Cancelled", "Unknown"}) =>
        /\ qpc = "ok"
        /\ qErr = "none"
        /\ Last(log).ev = "resp"
        /\ out = <<>>
        /\ Stored = {Last(Writes).row}
        /\ \A k \in 1..Len(Writes) : Writes[k].ok

\* C14's case: Running, then a status the match does not name: the row stays
\* Running.
C14_Witness ==
    /\ qpc = "ok"
    /\ Resps = <<"Running", "Unknown">>
    /\ \E r \in Stored : r.status = "Running"

\* C15: while a poll request is in flight, and once a row is printed, the
\* store's row is the in-memory record; a response that changes the status is
\* followed by the update carrying that status and by nothing else; a poll
\* request follows only a write that went through or a Scheduled response;
\* and rows are printed only with Complete in the record and in its row.
C15_WrittenBeforeNext ==
    /\ qpc = "poll" => Stored = {Row(hist)}
    /\ out # <<>> => Stored = {Row(hist)} /\ hist.status = "Complete"
    /\ \A k \in 1..(Len(log) - 1) :
          /\ (log[k].ev = "resp" /\ Persists(log[k].status)) =>
                /\ log[k + 1].ev = "update"
                /\ log[k + 1].row.status = log[k].status
          /\ log[k + 1].ev = "poll" =>
                \/ log[k].ev \in {"save", "update"} /\ log[k].ok
                \/ log[k].ev = "resp" /\ log[k].status = "Scheduled"

\* C15's case: the status went to Running and to Complete, a poll was sent
\* between the two, and rows were printed.
C15_Witness ==
    /\ Resps = <<"Running", "Complete">>
    /\ out # <<>>
    /\ qpc = "ok"

\* C16: a store write that failed is the last thing run_query did: it has
\* returned the store's error, sent no poll request since and printed no row.
C16_WriteErrorStops ==
    \A k \in 1..Len(log) :
        (log[k].ev \in {"save", "update"} /\ ~log[k].ok) =>
            /\ k = Len(log)
            /\ qpc = "err"
            /\ qErr = "store"
            /\ out = <<>>
            /\ Stored \subseteq {log[j].row : j \in 1..(k - 1)}

\* C16's case: the update of Complete failed after the update of Running
\* went through.
C16_Witness ==
    /\ qErr = "store"
    /\ Resps = <<"Running", "Complete">>
    /\ \E r \in Stored : r.status = "Running"

\* C17: once the record is created its id is one of the uuids, and the
\* record had that id at every poll, response and write; the first write is
\* the one save, sent before any poll request, and every later write is an
\* update.
C17_OneIdOneSave ==
    /\ (qpc = "save" \/ Writes # <<>>) => hist.id \in Ids
    /\ \A k \in 1..Len(log) : log[k].ev # "submit" => log[k].row.id = hist.id
    /\ \A k \in 1..Len(Writes) :
          Writes[k].ev = IF k = 1 THEN "save" ELSE "update"
    /\ \A k \in 1..Len(log) :
          log[k].ev = "poll" =>
              \E j \in 1..(k - 1) : log[j].ev = "save" /\ log[j].ok

\* C17's case: a save and two updates, all under the id of the record, next
\* to the row of an earlier run.
C17_Witness ==
    /\ Len(OkWrites) = 3
    /\ Cardinality(store) = 2
    /\ qpc = "ok"

\* The statuses written to the store, in order.
Persisted == [k \in 1..Len(OkWrites) |-> OkWrites[k].row.status]

\* C18 as claimed: the status is Scheduled at insert, Scheduled never follows
\* Running, and a terminal status is written only over Running.
C18_OnlyAfterRunning ==
    /\ Persisted # <<>> => Persisted[1] = "Scheduled"
    /\ \A k \in 2..Len(Persisted) :
          /\ ~(Persisted[k - 1] = "Running" /\ Persisted[k] = "Scheduled")
          /\ Persisted[k] \in Terminal => Persisted[k - 1] = "Running"

\* C18 amended: the status is Scheduled at insert and in no update; a
\* terminal status is written once, as the last write, over Scheduled or
\* Running; and the row holds the status written last.
C18_Lifecycle ==
    /\ Persisted # <<>> =>
          /\ Persisted[1] = "Scheduled"
          /\ OkWrites[1].ev = "save"
          /\ \A r \in Stored : r.status = Last(Persisted)
    /\ \A k \in 2..Len(Persisted) :
          /\ Persisted[k] \in {"Running"} \cup Terminal
          /\ Persisted[k - 1] \in {"Scheduled", "Running"}

\* C18's case: the first poll reports Complete, which is written over
\* Scheduled.
C18_Witness ==
    /\ Persisted = <<"Scheduled", "Complete">>
    /\ qpc = "ok"
    /\ \E r \in Stored : r.status = "Complete"

\* C19: the write of a terminal status that went through is the last thing
\* in the log, and run_query has returned.
C19_TerminalIsLast ==
    \A k \in 1..Len(log) :
        (/\ log[k].ev \in {"save", "update"}
         /\ log[k].ok
         /\ log[k].row.status \in Terminal) =>
            /\ k = Len(log)
            /\ qpc \in {"ok", "err"}

\* C19's case: Timeout was written after three polls.
C19_Witness ==
    /\ Polls = 3
    /\ Last(log).ev = "update" /\ Last(log).ok
    /\ Last(log).row.status = "Timeout"
    /\ qErr = "timeout"

\* The records of a result row that have a name other than the pointer's.
NamedFields(line) ==
    {i \in 1..Len(line) : line[i].field \notin {Absent, Some(PtrField)}}
FieldName(record) == UnwrapOr(record.field, "")
Keys(json) == {e[1] : e \in json}
\* run_query has printed the rows of a Complete response.
Printed == qpc = "ok" /\ Resps # <<>> /\ resp.status = "Complete"

\* C20 as claimed: a line is printed for each row; no line has the key @ptr,
\* and every record with another name and a value is in its row's line under
\* that name and with that value.
C20_EveryFieldEmitted ==
    Printed =>
        /\ Len(out) = Len(resp.rows)
        /\ \A k \in 1..Len(out) :
              /\ PtrField \notin Keys(out[k])
              /\ \A i \in NamedFields(resp.rows[k]) :
                    resp.rows[k][i].value # Absent =>
                        <<FieldName(resp.rows[k][i]),
                          UnwrapOr(resp.rows[k][i].value, "")>> \in out[k]

\* C20 amended: a line is printed for each row; its keys are the names of the
\* row's named fields other than @ptr, each once, and each key carries the
\* value of the last record of that name, or "" when that record has none.
C20_LastValueWins ==
    Printed =>
        /\ Len(out) = Len(resp.rows)
        /\ \A k \in 1..Len(out) :
              LET line == resp.rows[k]
              IN /\ PtrField \notin Keys(out[k])
                 /\ Keys(out[k]) = {FieldName(line[i]) : i \in NamedFields(line)}
                 /\ Cardinality(out[k]) = Cardinality(Keys(out[k]))
                 /\ \A i \in NamedFields(line) :
                       (\A j \in NamedFields(line) :
                           FieldName(line[j]) = FieldName(line[i]) => j <= i) =>
                           <<FieldName(line[i]), UnwrapOr(line[i].value, "")>>
                               \in out[k]

\* C20's case: a row with the pointer and a message, and a second row; the
\* first line holds the message alone.
C20_Witness ==
    /\ Printed
    /\ Len(out) = MaxRows
    /\ resp.rows[1] = <<Record(Some(PtrField), Some("x")),
                        Record(Some("@message"), Some("y"))>>
    /\ out[1] = {<<"@message", "y">>}

\* What LogGroupRef::parse returned.
Parsed == UnwrapOr(refs, Err(<<>>))
\* The pieces of the argument between its commas that are more than
\* whitespace, in the argument's order.
Kept == SelectSeq(Split(arg, ","), LAMBDA t : Trim(t) # <<>>)
\* The colons of a piece, the text before its first colon and the text after
\* it, both without the whitespace around them.
Colons(t) == {i \in 1..Len(t) : t[i] = ":"}
FirstColon(t) == CHOOSE i \in Colons(t) : \A j \in Colons(t) : i <= j
NameOf(t) ==
    IF Colons(t) = {} THEN Trim(t) ELSE Trim(SubSeq(t, 1, FirstColon(t) - 1))
PrefixOf(t) ==
    IF Colons(t) = {} THEN <<>> ELSE Trim(SubSeq(t, FirstColon(t) + 1, Len(t)))

\* C21: when every kept piece of the argument has a name, LogGroupRef::parse
\* returns one reference per kept piece, in the argument's order and with
\* duplicates kept; each holds the piece's text before its first ':' as name
\* and the text after it as prefix, the prefix being absent when the piece has
\* no ':' or nothing but whitespace after it. "a:x, b ,, c:" gives
\* [(a, x), (b, absent), (c, absent)].
C21_OneRefPerToken ==
    (refs # Absent /\ \A i \in 1..Len(Kept) : NameOf(Kept[i]) # <<>>) =>
        /\ Parsed.ok
        /\ Len(Parsed.val) = Len(Kept)
        /\ \A i \in 1..Len(Kept) :
              /\ Parsed.val[i].name = NameOf(Kept[i])
              /\ Parsed.val[i].prefix =
                     IF PrefixOf(Kept[i]) = <<>> THEN Absent
                     ELSE Some(PrefixOf(Kept[i]))
        /\ arg = Sample =>
              Parsed.val = <<LogGroupRef(<<"a">>, Some(<<"x">>)),
                             LogGroupRef(<<"b">>, Absent),
                             LogGroupRef(<<"c">>, Absent)>>

\* C21's case: the sample argument was parsed into three references.
C21_Witness ==
    /\ arg = Sample
    /\ refs # Absent
    /\ Parsed.ok
    /\ Len(Parsed.val) = 3

\* C22 as claimed: an argument with a kept piece whose name is empty, the
\* argument "" and the argument ":" all make LogGroupRef::parse fail, without
\* a reference.
C22_EmptyNameFails ==
    (/\ refs # Absent
     /\ \/ \E i \in 1..Len(Kept) : NameOf(Kept[i]) = <<>>
        \/ arg = <<>>
        \/ arg = <<":">>) =>
        ~Parsed.ok /\ Parsed.val = <<>>

Written == wrote = "ok" /\ Len(sink) = 1
TextChunks == {sink[1][i] : i \in 1..Len(sink[1])}
JsonKeys == {e[1] : e \in sink[1][1]}
AllOff ==
    /\ ~writer.with_timestamp /\ ~writer.with_group_name
    /\ ~writer.with_stream_name /\ ~writer.with_event_id

\* C24: with every print flag off the text writer writes the message (nothing
\* when the event has none) and a newline, and the JSON writer writes one
\* object whose only key is message, and a newline. Whatever the flags, the
\* text line holds a timestamp, group, stream or event id only if the flag of
\* that field is on, and the JSON object has the key timestamp, group, stream
\* or id only if the flag of that key is on.
C24_FlagsGateFields ==
    /\ (Written /\ writer.output = "Text") =>
          /\ AllOff =>
                sink[1] = (IF event.message = Absent THEN <<>>
                           ELSE <<Plain(UnwrapOr(event.message, ""))>>)
                              \o <<Plain("\n")>>
          /\ (\E c \in TextChunks : c.paint = "green") => writer.with_timestamp
          /\ (\E c \in TextChunks : c.paint = "blue") => writer.with_group_name
          /\ (\E c \in TextChunks : c.paint = "cyan") => writer.with_stream_name
          /\ (\E c \in TextChunks : c.paint = "yellow") => writer.with_event_id
    /\ (Written /\ writer.output = "Json") =>
          /\ Len(sink[1]) = 2 /\ sink[1][2] = "\n"
          /\ AllOff => JsonKeys = {"message"}
          /\ "message" \in JsonKeys
          /\ "timestamp" \in JsonKeys => writer.with_timestamp
          /\ "group" \in JsonKeys => writer.with_group_name
          /\ "stream" \in JsonKeys => writer.with_stream_name
          /\ "id" \in JsonKeys => writer.with_event_id
          /\ JsonKeys \subseteq {"message", "timestamp", "group", "stream", "id"}

\* C24's case: a JSON writer with every flag off wrote an event that has a
\* timestamp, a stream name and an event id.
C24_Witness ==
    /\ Written /\ writer.output = "Json" /\ AllOff
    /\ event.timestamp = Some(0)
    /\ event.log_stream_name # Absent /\ event.event_id # Absent
    /\ sink[1] = <<{<<"message", Some("hi")>>}, "\n">>

\* The step is a save, or an update, of the record hist.
Saves == Len(log') = Len(log) + 1 /\ Last(log').ev = "save"
Updates == Len(log') = Len(log) + 1 /\ Last(log').ev = "update"

\* C25: a save of a record whose id is in the store leaves the store as it
\* is, and a save of a record with a new id adds the record's row and nothing
\* else; an update puts the record's columns in the row of the record's id
\* and leaves every other row, and the number of rows, as they are.
C25_SaveIgnoresUpdateOverwrites ==
    [][/\ Saves =>
             IF \E r \in store : r.id = hist.id THEN store' = store
             ELSE store' = store \cup {Row(hist)}
       /\ Updates =>
             /\ \A r \in store : r.id # hist.id => r \in store'
             /\ \A r \in store' : r.id # hist.id => r \in store
             /\ (\E r \in store : r.id = hist.id) =>
                   /\ Row(hist) \in store'
                   /\ \A r \in store' : r.id = hist.id => r = Row(hist)
             /\ Cardinality(store') = Cardinality(store)]_vars

\* C25's case: a record was saved twice and then, changed, used for an update
\* of a store that holds a second row; the store holds the changed record.
C25_Witness ==
    /\ Len(log) = 3
    /\ log[1].ev = "save" /\ log[2].ev = "save" /\ log[3].ev = "update"
    /\ log[1].row = log[2].row
    /\ log[3].row.id = log[1].row.id /\ log[3].row # log[1].row
    /\ Cardinality(store) = 2
    /\ log[3].row \in store /\ log[1].row \notin store

\* The StartQuery requests sent so far.
Submits == Len(SelectSeq(log, LAMBDA e : e.ev = "submit"))

\* C26: when StartQuery answers without a query id, run_query returns an
\* error; no record was created, the store holds what it held before, no
\* write to it was tried, no poll was sent and StartQuery was sent once.
C26_NoIdNoRow ==
    qErr = "noid" =>
        /\ qpc = "err"
        /\ hist = DefaultHistory
        /\ store \subseteq {Row(OldRow)}
        /\ Writes = <<>>
        /\ Polls = 0 /\ Resps = <<>>
        /\ Submits = 1

\* C26's case: run_query has returned for want of a query id, the store
\* holding the row of an earlier run.
C26_Witness ==
    /\ qErr = "noid"
    /\ qpc = "err"
    /\ store = {Row(OldRow)}

\* C27 as claimed: when a response carries a continuation token and the
\* producer goes on, its next request carries that token and the start time
\* of the request the response answered.
C27_SameStartWithToken ==
    [][\A p \in Prods, tok \in Tokens :
          \A evs \in AnyPages(p, cursor[p], cmd.end) :
              (ProducerPage(p, evs, tok) /\ pc'[p] # "done") =>
                  /\ token'[p] = tok
                  /\ cursor'[p] = cursor[p]]_vars

\* C28: with --follow, an empty page puts the producer to sleep with the
\* cursor it had, and the sleep leaves the cursor alone: the request after an
\* empty page has the start time of the request the empty page answered.
C28_EmptyPageKeepsCursor ==
    [][\A p \in Prods :
          /\ \A tok \in TokenOpts :
                (cmd.follow /\ ProducerPage(p, <<>>, tok)) =>
                    /\ pc'[p] = "sleep"
                    /\ cursor'[p] = cursor[p]
          /\ pc[p] = "sleep" => cursor'[p] = cursor[p]]_vars

\* C28's case: the cursor was moved by a page with an event, the next page
\* was empty, and the request after the sleep is in flight.
C28_Witness ==
    /\ cmd.follow
    /\ pc[1] = "fetch"
    /\ page[1] = <<>> /\ emptyRun[1] = 1
    /\ received[1] # <<>>
    /\ cursor[1] = Last(received[1]).ts + 1

\* C29 as claimed: a producer sleeps only with --follow, after an empty page
\* that carried no continuation token; the backoff is above its start value
\* only then, so a request that carries a token has the start value.
C29_SleepsOnlyWithoutToken ==
    \A p \in Prods :
        /\ pc[p] = "sleep" => (cmd.follow /\ page[p] = <<>> /\ token[p] = None)
        /\ (pc[p] = "fetch" /\ backoff[p] > BackoffStart) =>
              (cmd.follow /\ token[p] = None)

\* The updates run_query asked of the store, and the Running responses.
UpdateCalls == SelectSeq(log, LAMBDA e : e.ev = "update")
RunningPolls == Len(SelectSeq(Resps, LAMBDA q : q = "Running"))

\* C30 as claimed: a poll answered Running is followed by one update of the
\* record with status Running, then (the update done) by a sleep of
\* PollInterval seconds, then by the next poll; and a run that is over after a
\* response of Complete, Failed or Timeout has asked the store for one update
\* more than it got Running responses.
C30_UpdatePerRunningPoll ==
    /\ \A k \in 1..Len(log) :
          (log[k].ev = "resp" /\ log[k].status = "Running") =>
              IF k = Len(log)
              THEN qpc = "update" /\ hist.status = "Running"
              ELSE /\ log[k + 1].ev = "update"
                   /\ log[k + 1].row.status = "Running"
                   /\ log[k + 1].ok =>
                         IF k + 1 = Len(log)
                         THEN qpc = "sleep" /\ nap = PollInterval
                         ELSE log[k + 2].ev = "poll"
    /\ (qpc \in {"ok", "err", "panic"} /\ Resps # <<>>
            /\ Last(Resps) \in Terminal) =>
          Len(UpdateCalls) = RunningPolls + 1

\* The step receives a poll response of the given status.
Answered(status) ==
    /\ Len(log') = Len(log) + 1
    /\ Last(log').ev = "resp"
    /\ Last(log').status = status

\* C31: a poll answered Scheduled leaves the store and the record as they are
\* and puts run_query to sleep for PollInterval seconds; the sleep changes
\* neither, and ends in the next poll request.
C31_ScheduledWritesNothing ==
    [][/\ Answered("Scheduled") =>
             /\ store' = store
             /\ hist' = hist
             /\ qpc' = "sleep" /\ nap' = PollInterval
       /\ qpc = "sleep" =>
             /\ store' = store
             /\ hist' = hist
             /\ qpc' \in {"sleep", "poll"}
             /\ qpc' = "poll" => Last(log').ev = "poll"]_vars

\* C31's case: two polls were answered Scheduled and the third is in flight;
\* the save is the one write, and the record is the one that was saved.
C31_Witness ==
    /\ Resps = <<"Scheduled", "Scheduled">>
    /\ qpc = "poll" /\ Polls = 3
    /\ Len(Writes) = 1
    /\ Stored = {Row(hist)}

\* The updates asked of the store with status Complete.
CompleteUpdates == SelectSeq(UpdateCalls, LAMBDA e : e.row.status = "Complete")

\* C32: once a poll is answered Complete with statistics, the next thing
\* run_query does is one update of the record's row, with status Complete,
\* records_total the number of rows of the response and the response's
\* matched, scanned and bytes statistics; nothing is printed before that
\* update is done, and once it is, one line per row of the response has been
\* printed, the k-th line with the field names of the k-th row.
C32_CompleteUpdateThenLines ==
    (Resps # <<>> /\ Last(Resps) = "Complete" /\ resp.stats # NoStats) =>
        /\ Len(CompleteUpdates) <= 1
        /\ IF Last(log).ev = "resp"
           THEN qpc = "update" /\ out = <<>>
           ELSE /\ Len(CompleteUpdates) = 1
                /\ Last(log) = CompleteUpdates[1]
                /\ Last(log).row.id = hist.id
                /\ Last(log).row.records_total = Len(resp.rows)
                /\ Last(log).row.records_matched = resp.stats.matched
                /\ Last(log).row.records_scanned = resp.stats.scanned
                /\ Last(log).row.bytes_scanned = resp.stats.bytes
                /\ IF Last(log).ok
                   THEN /\ qpc = "ok"
                        /\ Last(log).row \in store
                        /\ Len(out) = Len(resp.rows)
                        /\ \A k \in 1..Len(out) :
                              Keys(out[k]) =
                                  {FieldName(resp.rows[k][i]) :
                                      i \in NamedFields(resp.rows[k])}
                   ELSE qpc = "err" /\ out = <<>>

\* C32's case: after a Running poll, a Complete response with two rows, the
\* first without a field and the second with a message; the Complete update
\* is in the store and two lines are printed, an empty one first.
C32_Witness ==
    /\ Resps = <<"Running", "Complete">>
    /\ qpc = "ok"
    /\ Len(resp.rows) = 2 /\ resp.rows[1] = <<>> /\ resp.rows[2] # <<>>
    /\ Stored = {CompleteUpdates[1].row}
    /\ out = <<{}, {<<"@message", "x">>}>>

\* C33 as claimed: whenever the last poll was answered Complete, with or
\* without statistics, and the run is over without a failure of the store,
\* run_query has returned Ok and the record's row in the store has status
\* Complete.
C33_CompleteAlwaysPersisted ==
    (/\ Resps # <<>> /\ Last(Resps) = "Complete"
     /\ qpc \in {"ok", "err", "panic"}
     /\ qErr # "store") =>
        /\ qpc = "ok"
        /\ Stored # {}
        /\ \A r \in Stored : r.status = "Complete"

\* C34: the record given to an update has the clock's reading at the change
\* as modified_at; the clock never going back, every write to the store
\* carries a modified_at no earlier than that of the write before it and no
\* earlier than created_at, and created_at is the same in all of them.
C34_ModifiedAtGrows ==
    /\ qpc = "update" => hist.modified_at = now
    /\ \A k \in 1..Len(Writes) :
          /\ Writes[k].row.created_at <= Writes[k].row.modified_at
          /\ Writes[k].row.created_at = Writes[1].row.created_at
          /\ k > 1 =>
                Writes[k - 1].row.modified_at <= Writes[k].row.modified_at

\* C34's case: the record was saved at time 0, updated to Running at time 1
\* and to Complete at time 2.
C34_Witness ==
    /\ Len(Writes) = 3
    /\ Writes[1].row.modified_at = 0
    /\ Writes[2].row.modified_at = 1 /\ Writes[2].row.status = "Running"
    /\ Writes[3].row.modified_at = 2 /\ Writes[3].row.status = "Complete"
    /\ Writes[3].row.created_at = 0

\* The statuses on which run_query polls again.
Pending == {"Scheduled", "Running"}

\* C35 as claimed: once polling has begun, the run is over only after a
\* failed poll request, a failed store write or a response other than
\* Scheduled and Running; after such a response no poll is sent and run_query
\* has returned or is at the one update that precedes its return; and as long
\* as the responses are Scheduled or Running and nothing has failed, run_query
\* is still polling.
C35_StopsOnOtherStatus ==
    /\ (Polls >= 1 /\ qpc \in {"ok", "err", "panic"}) =>
          \/ qErr \in {"poll", "store"}
          \/ Resps # <<>> /\ Last(Resps) \notin Pending
    /\ \A k \in 1..Len(log) :
          (log[k].ev = "resp" /\ log[k].status \notin Pending) =>
              \A j \in (k + 1)..Len(log) : log[j].ev # "poll"
    /\ (Resps # <<>> /\ Last(Resps) \notin Pending) =>
          qpc \in {"update", "ok", "err"}
    /\ (Resps # <<>> /\ Last(Resps) \in Pending /\ qErr = "none") =>
          qpc \in {"update", "sleep", "poll"}

\* C36: with --follow no producer returns Ok: a producer that is no longer
\* running has returned the error of a failed request or of a failed send,
\* or was aborted by the driver.
C36_FollowNeverOk ==
    cmd.follow =>
        \A p \in Prods :
            /\ st[p] # "ok"
            /\ st[p] \in {"unspawned", "running", "err", "aborted"}
            /\ st[p] = "err" => taskErr[p] \in {"fetch", "send"}
            /\ pc[p] = "done" => st[p] \in {"err", "aborted"}

\* C36's case: with --follow, one producer received a page without a token,
\* went on, and ended on a failed request; the driver aborted the other.
C36_Witness ==
    /\ cmd.follow
    /\ sawNoTok[1]
    /\ st[1] = "err" /\ taskErr[1] = "fetch"
    /\ st[2] = "aborted"

\* The argument has a separator and nothing but separators and whitespace.
OnlySeparators ==
    /\ \E i \in 1..Len(arg) : arg[i] = ","
    /\ \A i \in 1..Len(arg) : arg[i] \in {","} \cup Whitespace

\* C37: an argument of separators alone parses to the empty list. When the
\* client is built and --end-time does not come with --follow, the driver
\* then spawns no producer, no request is sent, the writer dequeues and
\* writes nothing and ends with Ok, no task fails, and the driver does not
\* stop before it has returned Ok.
C37_SeparatorsOnly ==
    OnlySeparators =>
        /\ Parse(arg) = Ok(<<>>)
        /\ cmd.groups = 0
        /\ (cmd.buildOk /\ ~(cmd.end # None /\ cmd.follow)) =>
              /\ drv # "err"
              /\ \A p \in Prods : st[p] = "unspawned" /\ pc[p] = "init"
              /\ chan = <<>> /\ deq = <<>> /\ written = <<>>
              /\ wpc \in {"recv", "done"}
              /\ st[Writer] \in {"unspawned", "running", "ok"}
              /\ drv = "ok" \/ ENABLED NextOne

\* C37's case: the argument is ",", the writer has ended and the driver has
\* returned Ok.
C37_Witness ==
    /\ arg = <<",">>
    /\ st[Writer] = "ok"
    /\ drv = "ok"

\* C38: when a poll request fails, run_query returns that error with the
\* request as the last thing it did: no write to the store follows it, and
\* the record's row is the one last written, with status Scheduled or
\* Running.
C38_PollErrorWritesNothing ==
    qErr = "poll" =>
        /\ qpc = "err"
        /\ Last(log).ev = "poll"
        /\ \A k \in 1..Len(Writes) : Writes[k].ok
        /\ Stored = {Last(Writes).row}
        /\ Last(Writes).row.status \in {"Scheduled", "Running"}

\* C38's case: the poll after a Running response failed; the row is Running.
C38_Witness ==
    /\ qErr = "poll"
    /\ Resps = <<"Scheduled", "Running">>
    /\ \A r \in Stored : r.status = "Running"

\* The writes to the store before the k-th entry of the log.
WritesBefore(k) ==
    SelectSeq(SubSeq(log, 1, k - 1), LAMBDA e : e.ev \in {"save", "update"})

\* C39: no write to the store having failed, the record a poll request is
\* sent with is the record of the last write before it, and while the
\* request is in flight the store's row of the record's id is the in-memory
\* record: same status, same statistics.
C39_StoreInSyncAtPoll ==
    (\A k \in 1..Len(Writes) : Writes[k].ok) =>
        /\ \A k \in 1..Len(log) :
              log[k].ev = "poll" =>
                  /\ WritesBefore(k) # <<>>
                  /\ log[k].row = Last(WritesBefore(k)).row
        /\ qpc = "poll" => Stored = {Row(hist)}

\* C39's case: the third poll is in flight, after a Running update and a
\* Scheduled response; record and row both say Running.
C39_Witness ==
    /\ qpc = "poll"
    /\ Resps = <<"Running", "Scheduled">>
    /\ hist.status = "Running"
    /\ Stored = {Row(hist)}

\* The hypotheses of C40: the arguments are accepted, no request and no write
\* to the sink ever fails, and every group's request is at some time answered
\* without a continuation token.
NoCallFails == \A t \in Tasks : taskErr[t] \notin {"fetch", "sink"}
LastPage(p) == p \in Spawned => sawNoTok[p]

\* C40: without --follow, when the arguments are accepted, every request
\* succeeds, every group is at some time answered without a continuation
\* token and every write to the sink succeeds, Cmd::run eventually returns
\* Ok: the last producer to finish closes the channel, the writer drains it
\* and ends, and the driver has then joined every task.
C40_EventuallyOk ==
    (/\ ~cmd.follow
     /\ RunError = "none"
     /\ []NoCallFails
     /\ \A p \in Prods : <>LastPage(p))
        => <>(drv = "ok")

\* C40's case: two groups tailed without --follow, one of them answered with
\* a token first; both producers ended, the writer wrote what was sent and
\* ended after them, and the driver returned Ok.
C40_Witness ==
    /\ ~cmd.follow
    /\ cmd.groups = 2
    /\ drv = "ok"
    /\ st = [t \in Tasks |-> "ok"]
    /\ \E p \in Prods : Len(received[p]) > Len(page[p])
    /\ written # <<>>
    /\ ready = <<>> /\ chan = <<>> /\ ~rxOpen

====
